---- MODULE Spec2Model ----
(***************************************************************************)
(* Control-store ROM generators of the 8-bit CPU: control-words-rom.py     *)
(* (24-bit control words, flag-expanded, 5-bit opcodes) and                *)
(* instruction-rom.py (left/right 8-bit ROM pair, 4-bit opcodes).          *)
(***************************************************************************)
EXTENDS Integers, Sequences, FiniteSets, TLC

VARIABLES
  prog,                  \* which script is running
  pc,                    \* <<statement, index>>: the script's position
  instructions_by_flag,  \* control-words-rom.py: the four flag-variant tables
  rom_data,              \* control-words-rom.py: image of words 2 and 1
  rom_data_word0,        \* control-words-rom.py: image of word 0
  range_it,              \* next value of the for loop's range iterator
  address, flags, byte_select, instruction, step,   \* the loop's locals
  lt_rom_data,           \* instruction-rom.py: left image
  rt_rom_data,           \* instruction-rom.py: right image
  files,                 \* file name -> contents written
  assigned,              \* image name -> address -> number of explicit assignments
  declared,              \* control-words-rom.py: the values of HL .. C0 as declared
  seg_i, val, abs_val,   \* segment-rom.py: the loops' locals (i, val, abs_val)
  signals,               \* decode_control_word: the asserted entries of CONTROL_BITS
  word,                  \* decode_control_word: its argument
  text                   \* decode_control_word: its result

vars == <<prog, pc, instructions_by_flag, rom_data, rom_data_word0,
          range_it, address, flags, byte_select, instruction, step,
          lt_rom_data, rt_rom_data, files, assigned, declared, seg_i, val, abs_val,
          signals, word, text>>

ctl_vars == <<instructions_by_flag, rom_data, rom_data_word0,
              range_it, address, flags, byte_select, instruction, step>>

irom_vars == <<lt_rom_data, rt_rom_data>>

dec_vars == <<signals, word, text>>

seg_vars == <<seg_i, val, abs_val>>

(* ---------------- Python integer operators ---------------- *)

RECURSIVE OR(_, _)
\* a | b on non-negative integers
OR(a, b) ==
  IF a = 0 THEN b
  ELSE IF b = 0 THEN a
  ELSE (IF a % 2 = 1 \/ b % 2 = 1 THEN 1 ELSE 0) + 2 * OR(a \div 2, b \div 2)

RECURSIVE AND(_, _)
\* a & b on non-negative integers
AND(a, b) ==
  IF a = 0 \/ b = 0 THEN 0
  ELSE (IF a % 2 = 1 /\ b % 2 = 1 THEN 1 ELSE 0) + 2 * AND(a \div 2, b \div 2)

\* a >> n
SHR(a, n) == a \div (2 ^ n)

RECURSIVE pack(_)
\* s[1] | s[2] | ... | s[n], left to right
pack(s) == IF Len(s) = 0 THEN 0 ELSE OR(pack(SubSeq(s, 1, Len(s) - 1)), s[Len(s)])

(* ---------------- control-words-rom.py: signals ---------------- *)

HL == 2^23
MI == 2^22
RI == 2^21
RO == 2^20
TR == 2^19
II == 2^18
AI == 2^17
AO == 2^16
EO == 2^15
SU == 2^14
BI == 2^13
OI == 2^12
CE == 2^11
CO == 2^10
J == 2^9
\* FI declared with the literal of J, the line above it
FI_repeated == 2^9

FI == 2^8
BO == 2^7
UC == 2^6
SC == 2^5
CB == 2^4
C3 == 2^3
C2 == 2^2
C1 == 2^1
C0 == 2^0

\* the declarations of HL .. C0 in source order, which is CONTROL_BITS order
signal_bits ==
  <<HL, MI, RI, RO, TR, II, AI, AO, EO, SU, BI, OI, CE, CO, J, FI,
    BO, UC, SC, CB, C3, C2, C1, C0>>

\* the value of a control-word expression A|B|... when the signals hold the values
\* d: w is the expression's value under signal_bits, whose bits name the signals
redeclare(d, w) ==
  pack([n \in 1 .. Len(signal_bits) |-> IF AND(w, signal_bits[n]) # 0 THEN d[n] ELSE 0])

FLAGS_Z0C0 == 0
\* Z0C1 given the index of the zero flag
FLAGS_Z0C1_as_zero == 2^1

FLAGS_Z0C1 == 1
FLAGS_Z1C0 == 2
FLAGS_Z1C1 == 3

\* JCS mistyped as 0b00000101
JCS_mistyped == 2^2 + 2^0

JCS == 7
JZS == 8

\* the instructions list; Python indexes it from 0, the sequences here from 1
instructions ==
  <<
     <<pack(<<MI, CO>>), pack(<<RO, II, CE>>), TR, 0, 0, 0, 0, 0>>,
     <<pack(<<MI, CO>>), pack(<<RO, II, CE>>), pack(<<CO, MI>>), pack(<<RO, MI, CE>>), pack(<<RO, AI>>), TR, 0, 0>>,
     <<pack(<<MI, CO>>), pack(<<RO, II, CE>>), pack(<<CO, MI>>), pack(<<RO, MI, CE>>), pack(<<RO, BI>>), pack(<<EO, AI, FI>>), TR, 0>>,
     <<pack(<<MI, CO>>), pack(<<RO, II, CE>>), pack(<<CO, MI>>), pack(<<RO, MI, CE>>), pack(<<RO, BI>>), pack(<<SU, SC, EO, AI, FI>>), TR, 0>>,
     <<pack(<<MI, CO>>), pack(<<RO, II, CE>>), pack(<<CO, MI>>), pack(<<RO, MI, CE>>), pack(<<AO, RI>>), TR, 0, 0>>,
     <<pack(<<MI, CO>>), pack(<<RO, II, CE>>), pack(<<CO, MI>>), pack(<<RO, AI, CE>>), TR, 0, 0, 0>>,
     <<pack(<<MI, CO>>), pack(<<RO, II, CE>>), pack(<<CO, MI>>), pack(<<RO, J>>), TR, 0, 0, 0>>,
     <<pack(<<MI, CO>>), pack(<<RO, II, CE>>), CE, TR, 0, 0, 0, 0>>,
     <<pack(<<MI, CO>>), pack(<<RO, II, CE>>), CE, TR, 0, 0, 0, 0>>,
     <<pack(<<MI, CO>>), pack(<<RO, II, CE>>), pack(<<CO, MI>>), pack(<<RO, BI, CE>>), pack(<<EO, AI, FI>>), TR, 0, 0>>,
     <<pack(<<MI, CO>>), pack(<<RO, II, CE>>), pack(<<CO, MI>>), pack(<<RO, BI, CE>>), pack(<<SC, SU, EO, AI, FI>>), TR, 0, 0>>,
     <<pack(<<MI, CO>>), pack(<<RO, II, CE>>), MI, RI, J, TR, 0, 0>>,
     <<pack(<<MI, CO>>), pack(<<RO, II, CE>>), pack(<<CB, SU, SC, FI>>), TR, 0, 0, 0, 0>>,
     <<pack(<<MI, CO>>), pack(<<RO, II, CE>>), pack(<<CB, FI>>), TR, 0, 0, 0, 0>>,
     <<pack(<<MI, CO>>), pack(<<RO, II, CE>>), pack(<<AO, OI>>), TR, 0, 0, 0, 0>>,
     <<pack(<<MI, CO>>), pack(<<RO, II, CE>>), HL, HL, 0, 0, 0, 0>>,
     <<pack(<<MI, CO>>), pack(<<RO, II, CE>>), pack(<<CO, MI>>), pack(<<RO, MI, CE>>), pack(<<RO, BI>>), pack(<<UC, EO, AI, FI>>), TR, 0>>,
     <<pack(<<MI, CO>>), pack(<<RO, II, CE>>), pack(<<CO, MI>>), pack(<<RO, MI, CE>>), pack(<<RO, BI>>), pack(<<UC, SU, EO, AI, FI>>), TR, 0>>,
     <<pack(<<MI, CO>>), pack(<<RO, II, CE>>), pack(<<CB, SC, EO, AI, FI>>), TR, 0, 0, 0, 0>>,
     <<pack(<<MI, CO>>), pack(<<RO, II, CE>>), pack(<<CB, SU, EO, AI, FI>>), TR, 0, 0, 0, 0>>,
     <<pack(<<MI, CO>>), pack(<<RO, II, CE>>), TR, 0, 0, 0, 0, 0>>,
     <<pack(<<MI, CO>>), pack(<<RO, II, CE>>), TR, 0, 0, 0, 0, 0>>,
     <<pack(<<MI, CO>>), pack(<<RO, II, CE>>), TR, 0, 0, 0, 0, 0>>,
     <<pack(<<MI, CO>>), pack(<<RO, II, CE>>), TR, 0, 0, 0, 0, 0>>,
     <<pack(<<MI, CO>>), pack(<<RO, II, CE>>), TR, 0, 0, 0, 0, 0>>,
     <<pack(<<MI, CO>>), pack(<<RO, II, CE>>), TR, 0, 0, 0, 0, 0>>,
     <<pack(<<MI, CO>>), pack(<<RO, II, CE>>), TR, 0, 0, 0, 0, 0>>,
     <<pack(<<MI, CO>>), pack(<<RO, II, CE>>), TR, 0, 0, 0, 0, 0>>,
     <<pack(<<MI, CO>>), pack(<<RO, II, CE>>), TR, 0, 0, 0, 0, 0>>,
     <<pack(<<MI, CO>>), pack(<<RO, II, CE>>), TR, 0, 0, 0, 0, 0>>,
     <<pack(<<MI, CO>>), pack(<<RO, II, CE>>), TR, 0, 0, 0, 0, 0>>,
     <<pack(<<MI, CO>>), pack(<<RO, II, CE>>), TR, 0, 0, 0, 0, 0>>
  >>

\* arr[i] of a Python list or bytearray
item(arr, i) == arr[i + 1]

\* tbl[f][o][s]
item3(tbl, f, o, s) == tbl[f + 1][o + 1][s + 1]

\* bytearray(2048)
ROM_SIZE == 2048

bytearray(n) == [a \in 1 .. n |-> 0]

\* the patches with the last JCS line of variant Z0C1 pasted with the wrong opcode
patches_pasted ==
  << <<FLAGS_Z0C1, JCS, 2, OR(CO, MI)>>,
     <<FLAGS_Z0C1, JCS, 3, OR(RO, J)>>,
     <<FLAGS_Z0C1, JZS, 4, TR>>,
     <<FLAGS_Z1C1, JCS, 2, OR(CO, MI)>>,
     <<FLAGS_Z1C1, JCS, 3, OR(RO, J)>>,
     <<FLAGS_Z1C1, JCS, 4, TR>>,
     <<FLAGS_Z1C0, JZS, 2, OR(CO, MI)>>,
     <<FLAGS_Z1C0, JZS, 3, OR(RO, J)>>,
     <<FLAGS_Z1C0, JZS, 4, TR>>,
     <<FLAGS_Z1C1, JZS, 2, OR(CO, MI)>>,
     <<FLAGS_Z1C1, JZS, 3, OR(RO, J)>>,
     <<FLAGS_Z1C1, JZS, 4, TR>> >>

\* the twelve assignments that patch the flag variants, in source order
patches ==
  << <<FLAGS_Z0C1, JCS, 2, OR(CO, MI)>>,
     <<FLAGS_Z0C1, JCS, 3, OR(RO, J)>>,
     <<FLAGS_Z0C1, JCS, 4, TR>>,
     <<FLAGS_Z1C1, JCS, 2, OR(CO, MI)>>,
     <<FLAGS_Z1C1, JCS, 3, OR(RO, J)>>,
     <<FLAGS_Z1C1, JCS, 4, TR>>,
     <<FLAGS_Z1C0, JZS, 2, OR(CO, MI)>>,
     <<FLAGS_Z1C0, JZS, 3, OR(RO, J)>>,
     <<FLAGS_Z1C0, JZS, 4, TR>>,
     <<FLAGS_Z1C1, JZS, 2, OR(CO, MI)>>,
     <<FLAGS_Z1C1, JZS, 3, OR(RO, J)>>,
     <<FLAGS_Z1C1, JZS, 4, TR>> >>

\* the instructions list as the declared signal values build it
declared_instructions ==
  [o \in 1 .. Len(instructions) |->
     [s \in 1 .. Len(instructions[o]) |-> redeclare(declared, instructions[o][s])]]

\* [copy.deepcopy(instructions) for _ in range(4)]: four independent tables
deepcopy_by_flag == [f \in 1 .. 4 |-> declared_instructions]

\* tbl[f][o][s] = v when the four variants are one shared list (a shallow copy)
setitem3_shared(tbl, f, o, s, v) == [g \in 1 .. 4 |-> [tbl[g] EXCEPT ![o + 1][s + 1] = v]]

\* tbl[f][o][s - 1] = v: the patch lands one step early
setitem3_early(tbl, f, o, s, v) == [tbl EXCEPT ![f + 1][o + 1][s] = v]

\* tbl[f][o][s] = v on a table whose variants share nothing
setitem3(tbl, f, o, s, v) == [tbl EXCEPT ![f + 1][o + 1][s + 1] = v]

\* arr[i] = v
setitem(arr, i, v) == [arr EXCEPT ![i + 1] = v]

\* the opcode field taken with the 4-bit mask of the earlier revision
decode_instruction_4bit(a) == SHR(AND(a, 120), 3)

\* the address fields of the materialization loop
decode_flags(a)       == SHR(AND(a, 1536), 9)
decode_byte_select(a) == SHR(AND(a, 256), 8)
decode_instruction(a) == SHR(AND(a, 248), 3)
decode_step(a)        == AND(a, 7)

\* the byte stored in rom_data with the two planes exchanged
rom_byte_exchanged(tbl, f, b, o, s) ==
  IF b # 0 THEN AND(SHR(item3(tbl, f, o, s), 16), 255)
           ELSE AND(SHR(item3(tbl, f, o, s), 8), 255)

\* the byte stored in rom_data: word 1 when byte select is set, word 2 otherwise
rom_byte(tbl, f, b, o, s) ==
  IF b # 0 THEN AND(SHR(item3(tbl, f, o, s), 8), 255)
           ELSE AND(SHR(item3(tbl, f, o, s), 16), 255)

\* the byte stored in rom_data_word0
word0_byte(tbl, f, o, s) == AND(SHR(item3(tbl, f, o, s), 0), 255)

\* one more explicit assignment to image[a]
count(asg, image, a) == [asg EXCEPT ![image][a + 1] = @ + 1]

(* ---------------- control-words-rom.py: the script ---------------- *)

\* the script after the instructions list and its four copies are built
StartControl ==
  /\ prog = "control-words-rom"
  /\ pc = <<"expand", 1>>
  /\ instructions_by_flag = deepcopy_by_flag
  /\ seg_i = 0
  /\ val = 0
  /\ abs_val = 0
  /\ rom_data = <<>>
  /\ rom_data_word0 = <<>>
  /\ range_it = 0
  /\ address = 0
  /\ flags = 0
  /\ byte_select = 0
  /\ instruction = 0
  /\ step = 0
  /\ files = <<>>
  /\ assigned = <<>>
  /\ lt_rom_data = <<>>
  /\ rt_rom_data = <<>>
  /\ signals = {}
  /\ word = 0
  /\ text = <<>>

\* the script as it stands: HL .. C0 hold the values of lines 47-76
InitControl == declared = signal_bits /\ StartControl

\* instructions_by_flag[f][o][s] = v, one assignment
Patch ==
  /\ prog = "control-words-rom"
  /\ pc[1] = "expand"
  /\ LET p == patches[pc[2]] IN
       instructions_by_flag' =
         setitem3(instructions_by_flag, p[1], p[2], p[3], redeclare(declared, p[4]))
  /\ pc' = IF pc[2] < Len(patches) THEN <<"expand", pc[2] + 1>> ELSE <<"allocate", 0>>
  /\ UNCHANGED <<prog, declared, seg_vars, irom_vars, dec_vars, rom_data, rom_data_word0, range_it, address, flags,
                 byte_select, instruction, step, files, assigned>>

\* rom_data = bytearray(2048); rom_data_word0 = bytearray(2048); address = 0
Allocate ==
  /\ prog = "control-words-rom"
  /\ pc[1] = "allocate"
  /\ rom_data' = bytearray(ROM_SIZE)
  /\ rom_data_word0' = bytearray(ROM_SIZE)
  /\ assigned' = [image \in {"rom_data", "rom_data_word0"} |-> bytearray(ROM_SIZE)]
  /\ address' = 0
  /\ range_it' = 0
  /\ pc' = <<"for", 0>>
  /\ UNCHANGED <<prog, declared, seg_vars, irom_vars, dec_vars, instructions_by_flag, flags, byte_select, instruction, step, files>>

\* one iteration of for address in range(2048): split the address into its
\* fields, then rom_data[address] = ... and rom_data_word0[address] = ...
Materialize ==
  /\ prog = "control-words-rom"
  /\ pc[1] = "for"
  /\ range_it < ROM_SIZE
  /\ address' = range_it
  /\ range_it' = range_it + 1
  /\ flags' = decode_flags(address')
  /\ byte_select' = decode_byte_select(address')
  /\ instruction' = decode_instruction(address')
  /\ step' = decode_step(address')
  /\ rom_data' = setitem(rom_data, address',
       rom_byte(instructions_by_flag, flags', byte_select', instruction', step'))
  /\ rom_data_word0' = setitem(rom_data_word0, address',
       word0_byte(instructions_by_flag, flags', instruction', step'))
  /\ assigned' = count(count(assigned, "rom_data", address'), "rom_data_word0", address')
  /\ pc' = <<"for", 0>>
  /\ UNCHANGED <<prog, declared, seg_vars, irom_vars, dec_vars, instructions_by_flag, files>>

\* the range is exhausted: open("control-words-rom.bin", "wb").write(rom_data)
WriteRom ==
  /\ prog = "control-words-rom"
  /\ pc[1] = "for"
  /\ range_it >= ROM_SIZE
  /\ files' = files @@ ("control-words-rom.bin" :> rom_data)
  /\ pc' = <<"write_word0", 0>>
  /\ UNCHANGED <<prog, declared, seg_vars, irom_vars, dec_vars, instructions_by_flag, rom_data, rom_data_word0, range_it, address,
                 flags, byte_select, instruction, step, assigned>>

\* open("control-words-rom-word0.bin", "wb").write(rom_data_word0)
WriteWord0 ==
  /\ prog = "control-words-rom"
  /\ pc[1] = "write_word0"
  /\ files' = files @@ ("control-words-rom-word0.bin" :> rom_data_word0)
  /\ pc' = <<"csv_header", 0>>
  /\ UNCHANGED <<prog, declared, seg_vars, irom_vars, dec_vars, instructions_by_flag, rom_data, rom_data_word0, range_it, address,
                 flags, byte_select, instruction, step, assigned>>

(* ---------------- control-words-rom.py: decode table ---------------- *)

\* strings are sequences of one-character strings
CONTROL_BITS ==
  << <<HL, <<"H", "L">> >>, <<MI, <<"M", "I">> >>, <<RI, <<"R", "I">> >>,
     <<RO, <<"R", "O">> >>, <<TR, <<"T", "R">> >>, <<II, <<"I", "I">> >>,
     <<AI, <<"A", "I">> >>, <<AO, <<"A", "O">> >>, <<EO, <<"E", "O">> >>,
     <<SU, <<"S", "U">> >>, <<BI, <<"B", "I">> >>, <<OI, <<"O", "I">> >>,
     <<CE, <<"C", "E">> >>, <<CO, <<"C", "O">> >>, <<J, <<"J">> >>,
     <<FI, <<"F", "I">> >>, <<BO, <<"B", "O">> >>, <<UC, <<"U", "C">> >>,
     <<SC, <<"S", "C">> >>, <<CB, <<"C", "B">> >>, <<C3, <<"C", "3">> >>,
     <<C2, <<"C", "2">> >>, <<C1, <<"C", "1">> >>, <<C0, <<"C", "0">> >> >>

RECURSIVE join(_, _)
\* sep.join(list)
join(sep, list) ==
  IF Len(list) = 0 THEN <<>>
  ELSE IF Len(list) = 1 THEN list[1]
  ELSE list[1] \o sep \o join(sep, Tail(list))

\* the test written with | in place of &
bit_test_or(w, bit) == OR(w, bit) # 0

\* the test of the loop over CONTROL_BITS: word & bit
bit_test(w, bit) == AND(w, bit) # 0

RECURSIVE names_upto(_, _)
\* names after the first n entries of CONTROL_BITS have been tested; the bit of
\* entry n is the value its signal was declared with
names_upto(w, n) ==
  IF n = 0 THEN <<>>
  ELSE IF bit_test(w, declared[n])
       THEN Append(names_upto(w, n - 1), CONTROL_BITS[n][2])
       ELSE names_upto(w, n - 1)

decode_control_word(w) ==
  IF w = 0 THEN <<>> ELSE join(<<"|">>, names_upto(w, Len(CONTROL_BITS)))

mnemonics ==
  <<"NOP", "LDA", "ADD", "SUB", "STA", "LDI", "JMP", "JCS",
    "JZS", "ADI", "SUI", "PRG", "SEC", "CLC", "OUT", "HLT",
    "ADC", "SBC", "INC", "DEC", "O14", "O15", "O16", "O17",
    "O18", "O19", "O1A", "O1B", "O1C", "O1D", "O1E", "O1F">>

RECURSIVE bin(_)
\* the binary digits of n, most significant first ("0" for 0)
bin(n) == IF n < 2 THEN <<IF n = 1 THEN "1" ELSE "0">>
          ELSE Append(bin(n \div 2), IF n % 2 = 1 THEN "1" ELSE "0")

\* f"{n:04b}"
format_04b(n) == [i \in 1 .. (IF Len(bin(n)) < 4 THEN 4 - Len(bin(n)) ELSE 0) |-> "0"] \o bin(n)

csv_header ==
  <<"Mnemonic", "Opcode", "Step 0", "Step 1", "Step 2", "Step 3", "Step 4",
    "Step 5", "Step 6", "Step 7">>

\* [mnemonics[opcode], f"{opcode:04b}"] + [decode_control_word(step) for step in steps]
csv_row(opcode, steps) ==
  <<mnemonics[opcode + 1], format_04b(opcode)>>
    \o [i \in 1 .. Len(steps) |-> decode_control_word(steps[i])]

\* open("instructions.csv", "w"); writer.writerow(header)
WriteCsvHeader ==
  /\ prog = "control-words-rom"
  /\ pc[1] = "csv_header"
  /\ files' = files @@ ("instructions.csv" :> <<csv_header>>)
  /\ pc' = <<"csv_row", 0>>
  /\ UNCHANGED <<prog, declared, seg_vars, ctl_vars, irom_vars, dec_vars, assigned>>

\* for opcode, steps in enumerate(instructions): writer.writerow(row)
WriteCsvRow ==
  /\ prog = "control-words-rom"
  /\ pc[1] = "csv_row"
  /\ files' = [files EXCEPT
       !["instructions.csv"] =
         Append(@, csv_row(pc[2], [s \in 1 .. Len(item(instructions, pc[2])) |->
                                    redeclare(declared, item(instructions, pc[2])[s])]))]
  /\ pc' = IF pc[2] + 1 < Len(instructions) THEN <<"csv_row", pc[2] + 1>>
           ELSE <<"done", 0>>
  /\ UNCHANGED <<prog, declared, seg_vars, ctl_vars, irom_vars, dec_vars, assigned>>

(* ---------------- instruction-rom.py ---------------- *)

lt_HL == 128
lt_MI == 64
lt_RI == 32
lt_RO == 16
lt_IO == 8
lt_II == 4
lt_AI == 2
lt_AO == 1
rt_EO == 128
rt_SU == 64
rt_BI == 32
rt_OI == 16
rt_CE == 8
rt_CO == 4
rt_J == 2
rt_FL == 1
NIL == 0
\* NOP given LDA's opcode bits, 0b00001000
NOP_mistyped == 2^3

NOP == 0
LDA == 8
ADD == 16
OP3 == 24
OP4 == 32
OP5 == 40
OP6 == 48
OP7 == 56
OP8 == 64
OP9 == 72
OP10 == 80
OP11 == 88
OP12 == 96
OP13 == 104
OUT == 112
HLT == 120
STEP0 == 0
STEP1 == 1
STEP2 == 2
STEP3 == 3
STEP4 == 4

\* the assignment lines of the script, in source order:
\* lt_rom_data[OP | STEP] = lt ; rt_rom_data[OP | STEP] = rt
assignment_lines ==
  <<
     <<NOP, STEP0, lt_MI, rt_CO>>,
     <<NOP, STEP1, OR(lt_RO, lt_II), rt_CE>>,
     <<NOP, STEP2, NIL, NIL>>,
     <<NOP, STEP3, NIL, NIL>>,
     <<NOP, STEP4, NIL, NIL>>,
     <<LDA, STEP0, lt_MI, rt_CO>>,
     <<LDA, STEP1, OR(lt_RO, lt_II), rt_CE>>,
     <<LDA, STEP2, OR(lt_MI, lt_IO), NIL>>,
     <<LDA, STEP3, OR(lt_RO, lt_AI), NIL>>,
     <<LDA, STEP4, NIL, NIL>>,
     <<ADD, STEP0, lt_MI, rt_CO>>,
     <<ADD, STEP1, OR(lt_RO, lt_II), rt_CE>>,
     <<ADD, STEP2, OR(lt_MI, lt_IO), NIL>>,
     <<ADD, STEP3, lt_RO, rt_BI>>,
     <<ADD, STEP4, lt_AI, rt_EO>>,
     <<OP3, STEP0, lt_MI, rt_CO>>,
     <<OP3, STEP1, OR(lt_RO, lt_II), rt_CE>>,
     <<OP3, STEP2, NIL, NIL>>,
     <<OP3, STEP3, NIL, NIL>>,
     <<OP3, STEP4, NIL, NIL>>,
     <<OP4, STEP0, lt_MI, rt_CO>>,
     <<OP4, STEP1, OR(lt_RO, lt_II), rt_CE>>,
     <<OP4, STEP2, NIL, NIL>>,
     <<OP4, STEP3, NIL, NIL>>,
     <<OP4, STEP4, NIL, NIL>>,
     <<OP5, STEP0, lt_MI, rt_CO>>,
     <<OP5, STEP1, OR(lt_RO, lt_II), rt_CE>>,
     <<OP5, STEP2, NIL, NIL>>,
     <<OP5, STEP3, NIL, NIL>>,
     <<OP5, STEP4, NIL, NIL>>,
     <<OP6, STEP0, lt_MI, rt_CO>>,
     <<OP6, STEP1, OR(lt_RO, lt_II), rt_CE>>,
     <<OP6, STEP2, NIL, NIL>>,
     <<OP6, STEP3, NIL, NIL>>,
     <<OP6, STEP4, NIL, NIL>>,
     <<OP7, STEP0, lt_MI, rt_CO>>,
     <<OP7, STEP1, OR(lt_RO, lt_II), rt_CE>>,
     <<OP7, STEP2, NIL, NIL>>,
     <<OP7, STEP3, NIL, NIL>>,
     <<OP7, STEP4, NIL, NIL>>,
     <<OP8, STEP0, lt_MI, rt_CO>>,
     <<OP8, STEP1, OR(lt_RO, lt_II), rt_CE>>,
     <<OP8, STEP2, NIL, NIL>>,
     <<OP8, STEP3, NIL, NIL>>,
     <<OP8, STEP4, NIL, NIL>>,
     <<OP9, STEP0, lt_MI, rt_CO>>,
     <<OP9, STEP1, OR(lt_RO, lt_II), rt_CE>>,
     <<OP9, STEP2, NIL, NIL>>,
     <<OP9, STEP3, NIL, NIL>>,
     <<OP9, STEP4, NIL, NIL>>,
     <<OP10, STEP0, lt_MI, rt_CO>>,
     <<OP10, STEP1, OR(lt_RO, lt_II), rt_CE>>,
     <<OP10, STEP2, NIL, NIL>>,
     <<OP10, STEP3, NIL, NIL>>,
     <<OP10, STEP4, NIL, NIL>>,
     <<OP11, STEP0, lt_MI, rt_CO>>,
     <<OP11, STEP1, OR(lt_RO, lt_II), rt_CE>>,
     <<OP11, STEP2, NIL, NIL>>,
     <<OP11, STEP3, NIL, NIL>>,
     <<OP11, STEP4, NIL, NIL>>,
     <<OP12, STEP0, lt_MI, rt_CO>>,
     <<OP12, STEP1, OR(lt_RO, lt_II), rt_CE>>,
     <<OP12, STEP2, NIL, NIL>>,
     <<OP12, STEP3, NIL, NIL>>,
     <<OP12, STEP4, NIL, NIL>>,
     <<OP13, STEP0, lt_MI, rt_CO>>,
     <<OP13, STEP1, OR(lt_RO, lt_II), rt_CE>>,
     <<OP13, STEP2, NIL, NIL>>,
     <<OP13, STEP3, NIL, NIL>>,
     <<OP13, STEP4, NIL, NIL>>,
     <<OUT, STEP0, lt_MI, rt_CO>>,
     <<OUT, STEP1, OR(lt_RO, lt_II), rt_CE>>,
     <<OUT, STEP2, lt_AO, rt_OI>>,
     <<OUT, STEP3, NIL, NIL>>,
     <<OUT, STEP4, NIL, NIL>>,
     <<HLT, STEP0, lt_MI, rt_CO>>,
     <<HLT, STEP1, OR(lt_RO, lt_II), rt_CE>>,
     <<HLT, STEP2, lt_HL, NIL>>,
     <<HLT, STEP3, NIL, NIL>>,
     <<HLT, STEP4, NIL, NIL>>
  >>

InitInstruction ==
  /\ prog = "instruction-rom"
  /\ pc = <<"assign", 1>>
  /\ declared = <<>>
  /\ seg_i = 0
  /\ val = 0
  /\ abs_val = 0
  /\ lt_rom_data = bytearray(ROM_SIZE)
  /\ rt_rom_data = bytearray(ROM_SIZE)
  /\ assigned = [image \in {"lt_rom_data", "rt_rom_data"} |-> bytearray(ROM_SIZE)]
  /\ files = <<>>
  /\ instructions_by_flag = <<>>
  /\ rom_data = <<>>
  /\ rom_data_word0 = <<>>
  /\ range_it = 0
  /\ address = 0
  /\ flags = 0
  /\ byte_select = 0
  /\ instruction = 0
  /\ step = 0
  /\ signals = {}
  /\ word = 0
  /\ text = <<>>

\* the index expression OP | STEPn
rom_index(op, st) == OR(op, st)

\* one line: lt_rom_data[OP | STEP] = lt ; rt_rom_data[OP | STEP] = rt
Assign ==
  /\ prog = "instruction-rom"
  /\ pc[1] = "assign"
  /\ LET l == assignment_lines[pc[2]]
         i == rom_index(l[1], l[2])
     IN /\ lt_rom_data' = setitem(lt_rom_data, i, l[3])
        /\ rt_rom_data' = setitem(rt_rom_data, i, l[4])
        /\ assigned' = count(count(assigned, "lt_rom_data", i), "rt_rom_data", i)
  /\ pc' = IF pc[2] < Len(assignment_lines) THEN <<"assign", pc[2] + 1>>
           ELSE <<"write_left", 0>>
  /\ UNCHANGED <<prog, declared, seg_vars, ctl_vars, dec_vars, files>>

\* open("left-instruction-rom.bin", "wb").write(lt_rom_data)
WriteLeft ==
  /\ prog = "instruction-rom"
  /\ pc[1] = "write_left"
  /\ files' = files @@ ("left-instruction-rom.bin" :> lt_rom_data)
  /\ pc' = <<"write_right", 0>>
  /\ UNCHANGED <<prog, declared, seg_vars, ctl_vars, irom_vars, dec_vars, assigned>>

\* open("right-instruction-rom.bin", "wb").write(rt_rom_data)
WriteRight ==
  /\ prog = "instruction-rom"
  /\ pc[1] = "write_right"
  /\ files' = files @@ ("right-instruction-rom.bin" :> rt_rom_data)
  /\ pc' = <<"done", 0>>
  /\ UNCHANGED <<prog, declared, seg_vars, ctl_vars, irom_vars, dec_vars, assigned>>

(* ---------------- segment-rom.py ---------------- *)

\* 0b01111110, 0b00110000, 0b01101101, 0b01111001, 0b00110011,
\* 0b01011011, 0b01011111, 0b01110000, 0b01111111, 0b01111011
segment_digits == <<126, 48, 109, 121, 51, 91, 95, 112, 127, 123>>

\* abs(v)
abs(v) == IF v < 0 THEN 0 - v ELSE v

\* the index taken from the magnitude: abs(v) & 0xFF
and_0xFF_of_abs(v) == AND(abs(v), 255)

\* v & 0xFF on Python's unbounded two's-complement integers: a negative v is
\* ~(-v - 1), whose low eight bits are the complement of those of -v - 1
and_0xFF(v) == IF v < 0 THEN 255 - AND(0 - v - 1, 255) ELSE AND(v, 255)

\* rom_data[i], rom_data[i + 256], rom_data[i + 512], rom_data[i + 768] of one
\* iteration, for the block starting at base: the patterns of the three digits
\* of n and the sign byte
fill(rom, base, i, n, sign) ==
  setitem(setitem(setitem(setitem(rom,
    i + base, item(segment_digits, n % 10)),
    i + base + 256, item(segment_digits, (n \div 10) % 10)),
    i + base + 512, item(segment_digits, (n \div 100) % 10)),
    i + base + 768, sign)

\* the four assignments of one iteration counted
count4(asg, base, i) ==
  count(count(count(count(asg, "rom_data", i + base), "rom_data", i + base + 256),
    "rom_data", i + base + 512), "rom_data", i + base + 768)

\* the script after segment_digits and rom_data = bytearray(2048)
InitSegment ==
  /\ prog = "segment-rom"
  /\ pc = <<"unsigned", 0>>
  /\ declared = <<>>
  /\ seg_i = 0
  /\ val = 0
  /\ abs_val = 0
  /\ rom_data = bytearray(ROM_SIZE)
  /\ assigned = [image \in {"rom_data"} |-> bytearray(ROM_SIZE)]
  /\ files = <<>>
  /\ instructions_by_flag = <<>>
  /\ rom_data_word0 = <<>>
  /\ lt_rom_data = <<>>
  /\ rt_rom_data = <<>>
  /\ range_it = 0
  /\ address = 0
  /\ flags = 0
  /\ byte_select = 0
  /\ instruction = 0
  /\ step = 0
  /\ signals = {}
  /\ word = 0
  /\ text = <<>>

\* one iteration of for i in range(256); pc[2] is the position in the range
FillUnsigned ==
  /\ prog = "segment-rom"
  /\ pc[1] = "unsigned"
  /\ seg_i' = pc[2]
  /\ rom_data' = fill(rom_data, 0, seg_i', seg_i', 0)
  /\ assigned' = count4(assigned, 0, seg_i')
  /\ pc' = IF pc[2] + 1 < 256 THEN <<"unsigned", pc[2] + 1>> ELSE <<"signed", 0>>
  /\ UNCHANGED <<prog, declared, val, abs_val, irom_vars, dec_vars, files,
                 instructions_by_flag, rom_data_word0, range_it, address, flags,
                 byte_select, instruction, step>>

\* one iteration of for val in range(-128, 128); pc[2] is the position in the range
FillSigned ==
  /\ prog = "segment-rom"
  /\ pc[1] = "signed"
  /\ val' = pc[2] - 128
  /\ seg_i' = and_0xFF(val')
  /\ abs_val' = abs(val')
  /\ rom_data' = fill(rom_data, 1024, seg_i', abs_val', IF val' < 0 THEN 1 ELSE 0)
  /\ assigned' = count4(assigned, 1024, seg_i')
  /\ pc' = IF pc[2] + 1 < 256 THEN <<"signed", pc[2] + 1>> ELSE <<"write_segment", 0>>
  /\ UNCHANGED <<prog, declared, irom_vars, dec_vars, files,
                 instructions_by_flag, rom_data_word0, range_it, address, flags,
                 byte_select, instruction, step>>

\* open("segment-rom.bin", "wb").write(rom_data)
WriteSegment ==
  /\ prog = "segment-rom"
  /\ pc[1] = "write_segment"
  /\ files' = files @@ ("segment-rom.bin" :> rom_data)
  /\ pc' = <<"done", 0>>
  /\ UNCHANGED <<prog, declared, seg_vars, ctl_vars, irom_vars, dec_vars, assigned>>

(* ---------------- the scripts ---------------- *)

Init == InitControl \/ InitInstruction \/ InitSegment

Next ==
  \/ Patch \/ Allocate \/ Materialize \/ WriteRom \/ WriteWord0
  \/ WriteCsvHeader \/ WriteCsvRow
  \/ Assign \/ WriteLeft \/ WriteRight
  \/ FillUnsigned \/ FillSigned \/ WriteSegment

Spec == Init /\ [][Next]_vars

(* ---------------- control-words-rom.py with two signals on one bit ---------------- *)

\* the declarations in which one signal repeats the literal of the line above it
\* in the same word
Collisions ==
  {[signal_bits EXCEPT ![n] = signal_bits[n - 1]] :
     n \in {k \in 1 .. Len(signal_bits) : (k - 1) % 8 # 0}}

InitDeclared == declared \in Collisions /\ StartControl

NextControl ==
  \/ Patch \/ Allocate \/ Materialize \/ WriteRom \/ WriteWord0
  \/ WriteCsvHeader \/ WriteCsvRow

SpecDeclared == InitDeclared /\ [][NextControl]_vars

(* ---------------- decode_control_word on its own ---------------- *)

\* the largest number of signals asserted at once in a word handed to the decoder
MaxSignals == 3

InitDecode ==
  /\ prog = "decode_control_word"
  /\ pc = <<"call", 0>>
  /\ declared = signal_bits
  /\ seg_i = 0
  /\ val = 0
  /\ abs_val = 0
  /\ signals = {}
  /\ word = 0
  /\ text = <<>>
  /\ instructions_by_flag = <<>>
  /\ rom_data = <<>>
  /\ rom_data_word0 = <<>>
  /\ range_it = 0
  /\ address = 0
  /\ flags = 0
  /\ byte_select = 0
  /\ instruction = 0
  /\ step = 0
  /\ lt_rom_data = <<>>
  /\ rt_rom_data = <<>>
  /\ files = <<>>
  /\ assigned = <<>>

\* the caller asserts one more signal: word | bit
PickSignal ==
  /\ prog = "decode_control_word"
  /\ pc[1] = "return"
  /\ Cardinality(signals) < MaxSignals
  /\ \E i \in (1 .. Len(CONTROL_BITS)) \ signals :
       /\ signals' = signals \cup {i}
       /\ word' = OR(word, CONTROL_BITS[i][1])
  /\ text' = <<>>
  /\ pc' = <<"call", 0>>
  /\ UNCHANGED <<prog, declared, seg_vars, ctl_vars, irom_vars, files, assigned>>

\* the caller asserts exactly the signals it had left out: word ^ 0xFFFFFF
InvertSignals ==
  /\ prog = "decode_control_word"
  /\ pc[1] = "return"
  /\ signals' = (1 .. Len(CONTROL_BITS)) \ signals
  /\ word' = (2 ^ Len(CONTROL_BITS) - 1) - word
  /\ text' = <<>>
  /\ pc' = <<"call", 0>>
  /\ UNCHANGED <<prog, declared, seg_vars, ctl_vars, irom_vars, files, assigned>>

\* text = decode_control_word(word)
DecodeWord ==
  /\ prog = "decode_control_word"
  /\ pc[1] = "call"
  /\ text' = decode_control_word(word)
  /\ pc' = <<"return", 0>>
  /\ UNCHANGED <<prog, declared, seg_vars, ctl_vars, irom_vars, files, assigned, signals, word>>

NextDecode == PickSignal \/ InvertSignals \/ DecodeWord

SpecDecode == InitDecode /\ [][NextDecode]_vars

(* ---------------- properties ---------------- *)

\* bit k (0 = least significant) of the non-negative integer w
Bit(w, k) == (w \div (2 ^ k)) % 2

\* bits lo .. lo+7 of w
Byte(w, lo) == (w \div (2 ^ lo)) % 256

\* the word asserts the single-bit signal sig
Asserts(w, sig) == (w \div sig) % 2 = 1

\* control-words-rom.py has finished patching the flag variants
Expanded == prog = "control-words-rom" /\ pc[1] # "expand"

\* control-words-rom.py is in or past the materialization loop
Allocated == Expanded /\ pc[1] # "allocate"

\* control-words-rom.py has left the materialization loop
Materialized == Allocated /\ range_it = ROM_SIZE

\* instruction-rom.py has executed all its assignments
Assigned == prog = "instruction-rom" /\ pc[1] \in {"write_left", "write_right", "done"}

\* C1: with W the control word selected by the fields of address a (flags = bits
\* 10-9, byte select = bit 8, opcode = bits 7-3, step = bits 2-0), rom_data[a] is
\* bits 8-15 of W when byte select is 1 and bits 16-23 of W when it is 0, and
\* rom_data_word0[a] is bits 0-7 of W: for every address the loop has passed, so
\* for all of 0..2047 once materialization is over.
RomBytesAreWordSlices ==
  Allocated =>
    \A a \in 0 .. range_it - 1 :
      LET W == item3(instructions_by_flag, (a \div 512) % 4, (a \div 8) % 32, a % 8)
      IN /\ item(rom_data, a) = IF Bit(a, 8) = 1 THEN Byte(W, 8) ELSE Byte(W, 16)
         /\ item(rom_data_word0, a) = Byte(W, 0)

\* materialization is over; for JCS with carry set (variant Z0C1), step 3, the
\* word 1 plane holds J and the word 2 plane holds RO; SEC step 2 holds SC|CB in
\* word 0
RomBytesWitness ==
  /\ Materialized
  /\ item(rom_data, 512 + 256 + 7 * 8 + 3) = 2
  /\ item(rom_data, 512 + 7 * 8 + 3) = 16
  /\ item(rom_data_word0, 512 + 256 + 7 * 8 + 3) = 0
  /\ item(rom_data_word0, 256 + 12 * 8 + 2) = 48

\* f*512 + b*256 + o*8 + s
encode(f, b, o, s) == f * 512 + b * 256 + o * 8 + s

\* C2: the address decode is a bijection between 0..2047 and
\* (0..3) x (0..1) x (0..31) x (0..7): each address the loop decodes gives fields in
\* those ranges that encode back to it, and every tuple decodes from its encoding.
AddressCodecBijective ==
  /\ (Allocated /\ range_it > 0) =>
       /\ flags \in 0 .. 3
       /\ byte_select \in 0 .. 1
       /\ instruction \in 0 .. 31
       /\ step \in 0 .. 7
       /\ encode(flags, byte_select, instruction, step) = address
  /\ Materialized =>
       \A f \in 0 .. 3, b \in 0 .. 1, o \in 0 .. 31, s \in 0 .. 7 :
         LET a == encode(f, b, o, s)
         IN /\ a \in 0 .. 2047
            /\ decode_flags(a) = f
            /\ decode_byte_select(a) = b
            /\ decode_instruction(a) = o
            /\ decode_step(a) = s

\* address 0b01_1_00010_100 has been split into its four fields
AddressCodecWitness ==
  /\ Allocated
  /\ address = 788
  /\ range_it = 789
  /\ <<flags, byte_select, instruction, step>> = <<1, 1, 2, 4>>

\* C3: after flag expansion every opcode other than JCS (7) and JZS (8) has, at
\* every step, the base table's control word in all four flag variants.
UnconditionalOpcodesIdentical ==
  Expanded =>
    \A f \in 0 .. 3, o \in (0 .. 31) \ {7, 8}, s \in 0 .. 7 :
      item3(instructions_by_flag, f, o, s) = item(item(instructions, o), s)

\* the expansion has patched JCS and JZS in variant Z1C1 and left JMP alone
UnconditionalOpcodesWitness ==
  /\ Expanded
  /\ item(item(instructions_by_flag, 3), 7) # item(instructions, 7)
  /\ item(item(instructions_by_flag, 3), 8) # item(instructions, 8)
  /\ item(item(instructions_by_flag, 3), 6) = item(instructions, 6)

\* the steps of opcode o in variant f that assert J
JumpSteps(f, o) == {s \in 0 .. 7 : Asserts(item3(instructions_by_flag, f, o, s), J)}

\* exactly one step asserts J and that step or a neighbour asserts MI
JumpTaken(f, o) ==
  /\ Cardinality(JumpSteps(f, o)) = 1
  /\ \E s \in JumpSteps(f, o), t \in 0 .. 7 :
       /\ t \in {s - 1, s, s + 1}
       /\ Asserts(item3(instructions_by_flag, f, o, t), MI)

\* C4: after flag expansion, JCS asserts J in no step of the variants with carry
\* clear (Z0C0, Z1C0) and JZS in no step of the variants with zero clear (Z0C0,
\* Z0C1); in the variants where the tested flag is set exactly one step asserts J
\* and that step or an adjacent one asserts MI.
ConditionalJumpsFollowFlag ==
  Expanded =>
    /\ \A f \in {0, 2} : JumpSteps(f, 7) = {}
    /\ \A f \in {1, 3} : JumpTaken(f, 7)
    /\ \A f \in {0, 1} : JumpSteps(f, 8) = {}
    /\ \A f \in {2, 3} : JumpTaken(f, 8)

\* JCS jumps at step 3 with carry set while the carry-clear variant keeps CE, TR
ConditionalJumpsWitness ==
  /\ Expanded
  /\ JumpSteps(1, 7) = {3}
  /\ Asserts(item3(instructions_by_flag, 1, 7, 2), MI)
  /\ item3(instructions_by_flag, 0, 7, 2) = CE
  /\ JumpSteps(2, 8) = {3}

\* the image each ROM file is written from
image_of ==
  ("control-words-rom.bin" :> "rom_data") @@
  ("control-words-rom-word0.bin" :> "rom_data_word0") @@
  ("left-instruction-rom.bin" :> "lt_rom_data") @@
  ("right-instruction-rom.bin" :> "rt_rom_data")

\* C5: every ROM image file that has been written comes from an array in which
\* every one of the 2048 addresses was explicitly assigned exactly once.
WrittenImagesFullyAssigned ==
  \A file \in DOMAIN files \cap DOMAIN image_of :
    \A a \in 0 .. 2047 : item(assigned[image_of[file]], a) = 1

\* the control word of opcode o, step s in instruction-rom.py's ROM pair, as the
\* pair <<left byte, right byte>>
rom_pair(o, s) == <<item(lt_rom_data, o * 8 + s), item(rt_rom_data, o * 8 + s)>>

\* NOP fetches: step 0 is exactly {MI, CO} and step 1 exactly {RO, II, CE}, in the
\* four flag variants and in the left/right pair
NopFetches ==
  /\ Expanded =>
       \A f \in 0 .. 3 :
         /\ item3(instructions_by_flag, f, 0, 0) = MI + CO
         /\ item3(instructions_by_flag, f, 0, 1) = RO + II + CE
  /\ Assigned =>
       /\ rom_pair(0, 0) = <<lt_MI, rt_CO>>
       /\ rom_pair(0, 1) = <<lt_RO + lt_II, rt_CE>>

\* C6 as stated: NOP (opcode 0) asserts exactly {MI, CO} in step 0, exactly
\* {RO, II, CE} in step 1 and no signal at all in every step from 2 on, in the four
\* flag variants of control-words-rom.py and in instruction-rom.py.
NopIdleFromStep2 ==
  /\ NopFetches
  /\ Expanded =>
       \A f \in 0 .. 3, s \in 2 .. 7 : item3(instructions_by_flag, f, 0, s) = 0
  /\ Assigned =>
       \A s \in 2 .. 7 : rom_pair(0, s) = <<0, 0>>

\* C6 amended: NOP asserts exactly {MI, CO} in step 0 and exactly {RO, II, CE} in
\* step 1; in the four flag variants of control-words-rom.py it asserts exactly
\* {TR} in step 2 and nothing from step 3 on; in instruction-rom.py it asserts
\* nothing from step 2 on.
NopFetchesThenResets ==
  /\ NopFetches
  /\ Expanded =>
       \A f \in 0 .. 3 :
         /\ item3(instructions_by_flag, f, 0, 2) = TR
         /\ \A s \in 3 .. 7 : item3(instructions_by_flag, f, 0, s) = 0
  /\ Assigned =>
       \A s \in 2 .. 7 : rom_pair(0, s) = <<0, 0>>

\* instruction-rom.py has assigned its last line: NOP holds MI, CO at step 0 and
\* an explicitly assigned NIL at step 4, next to LDA's fetch
NopWitness ==
  /\ Assigned
  /\ rom_pair(0, 0) = <<64, 4>>
  /\ rom_pair(0, 4) = <<0, 0>>
  /\ item(assigned["lt_rom_data"], 4) = 1
  /\ rom_pair(1, 0) = <<64, 4>>

\* C7: HLT asserts HL in at least two consecutive steps, in the four flag
\* variants of control-words-rom.py (opcode 15) and in instruction-rom.py
\* (opcode 15, left ROM).
HaltHeldTwoSteps ==
  /\ Expanded =>
       \A f \in 0 .. 3 : \E s \in 0 .. 6 :
         /\ Asserts(item3(instructions_by_flag, f, 15, s), HL)
         /\ Asserts(item3(instructions_by_flag, f, 15, s + 1), HL)
  /\ Assigned =>
       \E s \in 0 .. 6 :
         /\ Asserts(rom_pair(15, s)[1], lt_HL)
         /\ Asserts(rom_pair(15, s + 1)[1], lt_HL)

\* C8: step 0 of every opcode is exactly MI|CO and step 1 exactly RO|II|CE: in
\* the four flag variants of control-words-rom.py before, during and after flag
\* expansion (32 opcodes), and in instruction-rom.py's ROM pair (16 opcodes).
FetchStepsCanonical ==
  /\ prog = "control-words-rom" =>
       \A f \in 0 .. 3, o \in 0 .. 31 :
         /\ item3(instructions_by_flag, f, o, 0) = MI + CO
         /\ item3(instructions_by_flag, f, o, 1) = RO + II + CE
  /\ Assigned =>
       \A o \in 0 .. 15 :
         /\ rom_pair(o, 0) = <<lt_MI, rt_CO>>
         /\ rom_pair(o, 1) = <<lt_RO + lt_II, rt_CE>>

\* the expansion has rewritten steps 2-4 of JZS in variant Z1C1 and its fetch
\* steps are still in place
FetchStepsWitness ==
  /\ Expanded
  /\ item3(instructions_by_flag, 3, 8, 2) = CO + MI
  /\ item3(instructions_by_flag, 3, 8, 4) = TR
  /\ item3(instructions_by_flag, 3, 8, 0) = MI + CO
  /\ item3(instructions_by_flag, 3, 8, 1) = RO + II + CE

\* the steps of opcode o in variant f that assert the signal sig
StepsAsserting(f, o, sig) ==
  {s \in 0 .. 7 : Asserts(item3(instructions_by_flag, f, o, s), sig)}

\* every step of opcode o in variant f after step t is the zero word
ZeroAfter(f, o, t) == \A s \in (t + 1) .. 7 : item3(instructions_by_flag, f, o, s) = 0

\* the least and the greatest member of a non-empty set of steps
First(S) == CHOOSE s \in S : \A t \in S : s <= t
Last(S) == CHOOSE s \in S : \A t \in S : t <= s

\* C9: after flag expansion, in each of the four variants, every step after an
\* opcode's first TR step is the zero word; HLT (15) never asserts TR and every
\* step after its last HL step is the zero word.
ZeroAfterSequenceEnd ==
  Expanded =>
    \A f \in 0 .. 3, o \in 0 .. 31 :
      /\ StepsAsserting(f, o, TR) # {} => ZeroAfter(f, o, First(StepsAsserting(f, o, TR)))
      /\ o = 15 =>
           /\ StepsAsserting(f, o, TR) = {}
           /\ StepsAsserting(f, o, HL) # {}
           /\ ZeroAfter(f, o, Last(StepsAsserting(f, o, HL)))

\* the patched JCS of variant Z0C1 resets at step 4, the unpatched JZS of the same
\* variant at step 3, and HLT holds HL up to step 3
ZeroAfterWitness ==
  /\ Expanded
  /\ StepsAsserting(1, 7, TR) = {4}
  /\ StepsAsserting(1, 8, TR) = {3}
  /\ StepsAsserting(1, 15, HL) = {2, 3}
  /\ StepsAsserting(1, 2, TR) = {6}

RECURSIVE split(_, _)
\* the pieces of string str between occurrences of the character sep
split(str, sep) ==
  IF \A i \in 1 .. Len(str) : str[i] # sep THEN <<str>>
  ELSE LET k == CHOOSE i \in 1 .. Len(str) :
                  str[i] = sep /\ \A j \in 1 .. i - 1 : str[j] # sep
       IN <<SubSeq(str, 1, k - 1)>> \o split(SubSeq(str, k + 1, Len(str)), sep)

\* the names in a decoded string
names_in(str) == IF str = <<>> THEN <<>> ELSE split(str, "|")

\* the bit value CONTROL_BITS gives the name
bit_of(name) == CONTROL_BITS[CHOOSE i \in 1 .. Len(CONTROL_BITS) : CONTROL_BITS[i][2] = name][1]

RECURSIVE members_upto(_, _)
\* the names of the members of S among the first n entries of CONTROL_BITS, in
\* CONTROL_BITS order
members_upto(S, n) ==
  IF n = 0 THEN <<>>
  ELSE IF n \in S THEN Append(members_upto(S, n - 1), CONTROL_BITS[n][2])
       ELSE members_upto(S, n - 1)

RECURSIVE sum_bits(_)
\* the OR of the bit values of a list of distinct names, as a sum of their bits
sum_bits(list) == IF list = <<>> THEN 0 ELSE bit_of(Head(list)) + sum_bits(Tail(list))

\* C10: for the set S of asserted signals and word = pack(S), the names in
\* decode_control_word(word) are exactly the members of S in CONTROL_BITS order,
\* their bit values OR back to word, and the empty set decodes to the empty string.
DecodeRoundTrip ==
  (prog = "decode_control_word" /\ pc[1] = "return") =>
    /\ names_in(text) = members_upto(signals, Len(CONTROL_BITS))
    /\ pack([i \in 1 .. Len(names_in(text)) |-> bit_of(names_in(text)[i])]) = word
    /\ sum_bits(members_upto(signals, Len(CONTROL_BITS))) = word
    /\ signals = {} => text = <<>>

\* the word RI|J|C0 has been decoded to "RI|J|C0"
DecodeWitness ==
  /\ prog = "decode_control_word"
  /\ pc[1] = "return"
  /\ signals = {3, 15, 24}
  /\ word = RI + J + C0
  /\ text = <<"R", "I", "|", "J", "|", "C", "0">>
  /\ names_in(text) = << <<"R", "I">>, <<"J">>, <<"C", "0">> >>

\* x is a single bit among bits lo .. hi
SingleBit(x, lo, hi) == \E k \in lo .. hi : x = 2 ^ k

\* the lowest bit of the word (2, 1 or 0) that holds entry n of CONTROL_BITS
WordBase(n) == 8 * (2 - ((n - 1) \div 8))

\* the left-side and the right-side signals of instruction-rom.py
lt_signals == <<lt_HL, lt_MI, lt_RI, lt_RO, lt_IO, lt_II, lt_AI, lt_AO>>
rt_signals == <<rt_EO, rt_SU, rt_BI, rt_OI, rt_CE, rt_CO, rt_J, rt_FL>>

\* every entry of the list is one bit of a byte and no two entries are equal
DistinctByteBits(list) ==
  /\ \A n \in 1 .. Len(list) : SingleBit(list[n], 0, 7)
  /\ \A n, k \in 1 .. Len(list) : n # k => list[n] # list[k]

\* C11: in control-words-rom.py the 24 signals HL .. C0 are 24 pairwise distinct
\* single bits, the first eight in word 2 (bits 16-23), the next eight in word 1
\* (bits 8-15), the last eight in word 0 (bits 0-7); in instruction-rom.py the 8
\* left-side signals are pairwise distinct single bits of a byte and so are the 8
\* right-side signals.
SignalsAreDistinctBits ==
  /\ prog = "control-words-rom" =>
       /\ Len(declared) = 24
       /\ \A n \in 1 .. 24 : SingleBit(declared[n], WordBase(n), WordBase(n) + 7)
       /\ \A n, k \in 1 .. 24 : n # k => declared[n] # declared[k]
  /\ prog = "instruction-rom" =>
       /\ Len(lt_signals) = 8 /\ DistinctByteBits(lt_signals)
       /\ Len(rt_signals) = 8 /\ DistinctByteBits(rt_signals)

\* the copies of the table are built from the declarations: step 1 of NOP holds
\* RO, II of word 2 and CE of word 1, and FI keeps the lowest bit of word 1
SignalsWitness ==
  /\ Expanded
  /\ declared[16] = 256
  /\ declared[15] = 512
  /\ item3(instructions_by_flag, 0, 0, 1) = 2 ^ 20 + 2 ^ 18 + 2 ^ 11

\* two signals of one word are declared on a common bit
Collision ==
  /\ prog = "control-words-rom"
  /\ \E n, k \in 1 .. Len(declared) :
       /\ n # k
       /\ WordBase(n) = WordBase(k)
       /\ AND(declared[n], declared[k]) # 0

\* C12: when two signals of the same word are declared with overlapping bits the
\* script stops with an error and writes no file, neither a ROM image nor the
\* decode table.
CollisionWritesNothing == Collision => (DOMAIN files = {} /\ pc[1] # "done")

\* the J bit of the byte stored at address a of rom_data (J is bit 9 of the
\* control word, so bit 1 of the word 1 plane)
JBit(a) == Bit(item(rom_data, a), 1)

\* the addresses below n whose byte select is 1 and whose opcode field is o
Word1Addresses(n, o) ==
  {a \in 0 .. n - 1 : Bit(a, 8) = 1 /\ (a \div 8) % 32 = o}

\* C13: in the materialized rom_data, at the addresses with byte select 1, the J
\* bit of opcode JCS is set exactly when address bit 9 (carry) is 1 and the step
\* is 3, whatever bit 10 is, and the J bit of opcode JZS is set exactly when
\* address bit 10 (zero) is 1 and the step is 3, whatever bit 9 is: for every
\* address the loop has passed.
JumpBitFollowsAddressFlag ==
  Allocated =>
    /\ \A a \in Word1Addresses(range_it, 7) :
         JBit(a) = 1 <=> (Bit(a, 9) = 1 /\ a % 8 = 3)
    /\ \A a \in Word1Addresses(range_it, 8) :
         JBit(a) = 1 <=> (Bit(a, 10) = 1 /\ a % 8 = 3)

\* materialization is over; JCS step 3 has J with carry set for either value of
\* bit 10 and not with carry clear, JZS step 3 has J with zero set for either
\* value of bit 9 and not with zero clear
JumpBitWitness ==
  /\ Materialized
  /\ JBit(512 + 256 + 7 * 8 + 3) = 1
  /\ JBit(1024 + 512 + 256 + 7 * 8 + 3) = 1
  /\ JBit(1024 + 256 + 7 * 8 + 3) = 0
  /\ JBit(1024 + 256 + 8 * 8 + 3) = 1
  /\ JBit(1024 + 512 + 256 + 8 * 8 + 3) = 1
  /\ JBit(512 + 256 + 8 * 8 + 3) = 0
  /\ JBit(512 + 256 + 7 * 8 + 2) = 0

\* the segment pattern of decimal digit k (0 = ones, 1 = tens, 2 = hundreds) of n
Pattern(n, k) == item(segment_digits, (n \div (10 ^ k)) % 10)

\* the value of byte v read as two's complement
Signed(v) == IF v < 128 THEN v ELSE v - 256

\* the magnitude of the two's-complement value of byte v
Magnitude(v) == IF Signed(v) < 0 THEN 0 - Signed(v) ELSE Signed(v)

\* the byte values whose unsigned block entries the first loop has written
UnsignedDone ==
  IF prog # "segment-rom" THEN {}
  ELSE IF pc[1] = "unsigned" THEN 0 .. pc[2] - 1
  ELSE 0 .. 255

\* the byte values whose signed block entries the second loop has written
SignedDone ==
  IF prog # "segment-rom" \/ pc[1] = "unsigned" THEN {}
  ELSE IF pc[1] = "signed" THEN {v \in 0 .. 255 : Signed(v) < pc[2] - 128}
  ELSE 0 .. 255

\* segment-rom.py has left both loops
Filled == prog = "segment-rom" /\ pc[1] \in {"write_segment", "done"}

\* C14: in segment-rom.py, for every byte value v, rom_data[v], rom_data[v+256]
\* and rom_data[v+512] are the segment patterns of the ones, tens and hundreds
\* digits of v and rom_data[v+768] is 0; with s the two's-complement value of v,
\* rom_data[v+1024], rom_data[v+1280] and rom_data[v+1536] are the patterns of the
\* ones, tens and hundreds digits of |s| and rom_data[v+1792] is 1 if s < 0 and 0
\* otherwise: for every value a loop has passed, so for all of 0..255 once both
\* loops are over. No address is ever assigned twice, and once both loops are
\* over (and when the file is written) every one of the 2048 addresses has been
\* assigned exactly once.
SegmentRomHoldsDigits ==
  prog = "segment-rom" =>
    /\ \A v \in UnsignedDone :
         /\ item(rom_data, v) = Pattern(v, 0)
         /\ item(rom_data, v + 256) = Pattern(v, 1)
         /\ item(rom_data, v + 512) = Pattern(v, 2)
         /\ item(rom_data, v + 768) = 0
    /\ \A v \in SignedDone :
         /\ item(rom_data, v + 1024) = Pattern(Magnitude(v), 0)
         /\ item(rom_data, v + 1280) = Pattern(Magnitude(v), 1)
         /\ item(rom_data, v + 1536) = Pattern(Magnitude(v), 2)
         /\ item(rom_data, v + 1792) = IF Signed(v) < 0 THEN 1 ELSE 0
    /\ \A a \in 0 .. 2047 : item(assigned["rom_data"], a) <= 1
    /\ Filled => \A a \in 0 .. 2047 : item(assigned["rom_data"], a) = 1
    /\ "segment-rom.bin" \in DOMAIN files => files["segment-rom.bin"] = rom_data

\* segment-rom.bin is written; 123 shows 3, 2, 1 and no sign, byte 133 (-123)
\* shows 3, 2, 1 and the sign, byte 128 (-128) shows 8, 2, 1 and the sign
SegmentRomWitness ==
  /\ Filled
  /\ "segment-rom.bin" \in DOMAIN files
  /\ item(rom_data, 123) = 121
  /\ item(rom_data, 123 + 256) = 109
  /\ item(rom_data, 123 + 512) = 48
  /\ item(rom_data, 123 + 768) = 0
  /\ item(rom_data, 133 + 1024) = 121
  /\ item(rom_data, 133 + 1280) = 109
  /\ item(rom_data, 133 + 1536) = 48
  /\ item(rom_data, 133 + 1792) = 1
  /\ item(rom_data, 128 + 1024) = 127
  /\ item(rom_data, 127 + 1792) = 0

====
